---- MODULE Spec2Model ----
(***************************************************************************)
(* Model of src/backup/backup.py: the backup cycle (run_backup) with its   *)
(* steps, and the scheduler loop (main) that starts the cycles.            *)
(*                                                                         *)
(* Time is counted in ticks.  The local backup store (BACKUP_DIR) is a     *)
(* function from file names to modification times; a file name is a record *)
(* [kind, ts]: kind "work" is the directory work-<ts>, kind "tar" is       *)
(* n8n-backup-<ts>.tar.gz and kind "gpg" is n8n-backup-<ts>.tar.gz.gpg.    *)
(* The files in the working directory of the cycle under way and the       *)
(* members of its final archive are kept in work_files, archive_members.   *)
(***************************************************************************)
EXTENDS Integers, Sequences, FiniteSets, TLC

\* ---------------------------------------------------------------- bounds
\* last tick of the clock: no step lets time pass beyond it
MaxTime == 3
\* distance in ticks between two fire times of the valid schedule
Period == 2
\* ticks the poll loop of run_redis_backup waits (300 s in the source)
PollTimeout == 1
\* largest BACKUP_RETENTION_DAYS tried, in ticks
MaxRetention == 1

\* ------------------------------------------------- configuration values
\* values of BACKUP_RCLONE_DESTINATIONS, as sequences of characters
DestinationSettings ==
    { <<>>,
      <<",">>,
      <<" ">>,
      <<"a">>,
      <<"a", ",", "b">>,
      <<" ", "b", ",", ",", "a", " ">>,
      <<"a", ",", "b", ",", "c">> }

\* values of BACKUP_ENCRYPTION_KEY
EncryptionKeys == {"", "secret"}

\* values of <<SMTP_HOST, SMTP_TO, BACKUP_WEBHOOK_URL>>: every setting empty
\* or not
NotificationSettings == {"", "smtp"} \X {"", "ops"} \X {"", "http"}

\* values of BACKUP_SCHEDULE: n > 0 is an expression firing at every
\* multiple of n ticks, 0 is an expression croniter rejects
Schedules == {0, Period}

\* ------------------------------------------------------ pure functions
\* str.split(',')
RECURSIVE SplitAcc(_, _, _)
SplitAcc(s, cur, acc) ==
    IF s = <<>> THEN Append(acc, cur)
    ELSE IF Head(s) = ","
         THEN SplitAcc(Tail(s), <<>>, Append(acc, cur))
         ELSE SplitAcc(Tail(s), Append(cur, Head(s)), acc)

Split(s) == SplitAcc(s, <<>>, <<>>)

\* str.strip()
RECURSIVE LStrip(_)
LStrip(s) == IF s # <<>> /\ Head(s) = " " THEN LStrip(Tail(s)) ELSE s

RECURSIVE RStrip(_)
RStrip(s) ==
    IF s # <<>> /\ s[Len(s)] = " " THEN RStrip(SubSeq(s, 1, Len(s) - 1)) ELSE s

Strip(s) == RStrip(LStrip(s))

\* [d.strip() for d in BACKUP_RCLONE_DESTINATIONS.split(',') if d.strip()]
RECURSIVE StripAll(_)
StripAll(parts) ==
    IF parts = <<>> THEN <<>>
    ELSE IF Strip(Head(parts)) # <<>>
         THEN <<Strip(Head(parts))>> \o StripAll(Tail(parts))
         ELSE StripAll(Tail(parts))

ParseDestinations(s) == StripAll(Split(s))

\* croniter.is_valid(BACKUP_SCHEDULE)
croniter_is_valid(schedule) == schedule > 0

\* cron.get_next: the first fire time strictly after the iterator's value
get_next(schedule, cur) == ((cur \div schedule) + 1) * schedule

\* ------------------------------------------------------------- state
VARIABLES
    \* configuration, read once from the environment
    BACKUP_SCHEDULE, BACKUP_RETENTION_DAYS, BACKUP_ENCRYPTION_KEY,
    BACKUP_RCLONE_DESTINATIONS, BACKUP_RUN_ON_START,
    BACKUP_DELETE_LOCAL_AFTER_UPLOAD, SMTP_HOST, SMTP_TO, BACKUP_WEBHOOK_URL,
    \* main
    pc, now, cron, next_run, caller,
    \* history of the loop: the seed of the iterator, then the fire time of
    \* every cycle the loop has started
    fires,
    \* run_backup
    timestamp, store, work_files, archive_members, final_path, destinations,
    dest_i, exc, outcome, trace,
    \* run_redis_backup and the Redis server
    last_save, start, server_lastsave

config == <<BACKUP_SCHEDULE, BACKUP_RETENTION_DAYS, BACKUP_ENCRYPTION_KEY,
            BACKUP_RCLONE_DESTINATIONS, BACKUP_RUN_ON_START,
            BACKUP_DELETE_LOCAL_AFTER_UPLOAD, SMTP_HOST, SMTP_TO,
            BACKUP_WEBHOOK_URL>>

sched == <<cron, next_run, caller, fires>>

redis_vars == <<last_save, start, server_lastsave>>

files == <<store, work_files, archive_members>>

cycle_vars == <<timestamp, files, final_path, destinations, dest_i, exc,
                outcome, trace>>

vars == <<config, pc, now, sched, cycle_vars, redis_vars>>

\* ------------------------------------------------------------ helpers
NoFile == [kind |-> "none", ts |-> 0]

work_dir == [kind |-> "work", ts |-> timestamp]

archive_path == [kind |-> "tar", ts |-> timestamp]

\* variant of encrypted_path: the output of gpg gets no suffix of its own
encrypted_path_unsuffixed == [kind |-> "tar", ts |-> timestamp]

\* archive_path.with_suffix(archive_path.suffix + '.gpg')
encrypted_path == [kind |-> "gpg", ts |-> timestamp]

\* an empty directory, an archive without members
NoFiles == [f \in {} |-> f]

Ev(step, arg, res) == [step |-> step, arg |-> arg, res |-> res]

\* a file system with file f written (created or replaced) at time t
WriteFile(st, f, t) == [g \in DOMAIN st \cup {f} |-> IF g = f THEN t ELSE st[g]]

\* a file system without file f
RemoveFile(st, f) == [g \in DOMAIN st \ {f} |-> st[g]]

\* a directory listing with one more file in it; quality tells a complete
\* file from a truncated one
AddFile(listing, name, quality) ==
    [n \in DOMAIN listing \cup {name} |->
        IF n = name THEN quality ELSE listing[n]]

\* the steps of a cycle that take long enough for the clock to advance: the
\* database dump and the uploads
InCycle == pc \in {"pg_dump", "upload_one"}

\* outcomes of subprocess.run(..., timeout=SUBPROCESS_TIMEOUT): exit status
\* zero, exit status non-zero, or subprocess.TimeoutExpired raised
SubprocessResults == {"ok", "nonzero", "timeout"}

\* ---------------------------------------------------------------- Init
\* the process as main is entered: nothing has run, the backup directory
\* holds nothing
ProcessStart ==
    /\ pc = "main"
    /\ now = 0
    /\ cron = 0
    /\ next_run = 0
    /\ caller = "none"
    /\ fires = <<>>
    /\ timestamp = 0
    /\ store = NoFiles
    /\ work_files = NoFiles
    /\ archive_members = NoFiles
    /\ final_path = NoFile
    /\ destinations = <<>>
    /\ dest_i = 0
    /\ exc = "none"
    /\ outcome = "none"
    /\ trace = <<>>
    /\ last_save = 0
    /\ start = 0
    /\ server_lastsave = 0

Init ==
    /\ BACKUP_SCHEDULE \in Schedules
    /\ BACKUP_RETENTION_DAYS \in 0..MaxRetention
    /\ BACKUP_ENCRYPTION_KEY \in EncryptionKeys
    /\ BACKUP_RCLONE_DESTINATIONS \in DestinationSettings
    /\ BACKUP_RUN_ON_START \in BOOLEAN
    /\ BACKUP_DELETE_LOCAL_AFTER_UPLOAD \in BOOLEAN
    /\ SMTP_HOST = ""
    /\ SMTP_TO = ""
    /\ BACKUP_WEBHOOK_URL = ""
    /\ ProcessStart

\* ---------------------------------------------------------------- main
\* main without the validation of lines 356-359
ValidateSkipped ==
    /\ pc = "main"
    /\ pc' = "run_on_start"
    /\ UNCHANGED <<config, now, sched, cycle_vars, redis_vars>>

\* main, lines 356-359: validate the schedule, exit(1) when invalid
Validate ==
    /\ pc = "main"
    /\ pc' = IF croniter_is_valid(BACKUP_SCHEDULE) THEN "run_on_start" ELSE "exit1"
    /\ UNCHANGED <<config, now, sched, cycle_vars, redis_vars>>

\* main, lines 362-365: the optional cycle before the loop
RunOnStart ==
    /\ pc = "run_on_start"
    /\ IF BACKUP_RUN_ON_START
       THEN pc' = "run_backup" /\ caller' = "initial"
       ELSE pc' = "seed" /\ caller' = caller
    /\ UNCHANGED <<config, now, cron, next_run, fires, cycle_vars, redis_vars>>

\* main, line 370: croniter(BACKUP_SCHEDULE, datetime.now(timezone.utc))
Seed ==
    /\ pc = "seed"
    /\ cron' = now
    /\ fires' = <<now>>
    /\ pc' = "get_next"
    /\ UNCHANGED <<config, now, next_run, caller, cycle_vars, redis_vars>>

\* where the loop goes after computing wait_seconds (line 375)
AfterGetNext(wait_seconds) == IF wait_seconds > 0 THEN "sleep" ELSE "run_backup"

\* variant of GetNext: the iterator is built anew from the clock in every
\* pass of the loop, so fire times that passed during a cycle are dropped
GetNextReseeded ==
    /\ pc = "get_next"
    /\ next_run' = get_next(BACKUP_SCHEDULE, now)
    /\ cron' = next_run'
    /\ pc' = AfterGetNext(next_run' - now)
    /\ caller' = "loop"
    /\ UNCHANGED <<config, now, fires, cycle_vars, redis_vars>>

\* main, lines 372-375: next fire time of the iterator, and the wait
GetNext ==
    /\ pc = "get_next"
    /\ next_run' = get_next(BACKUP_SCHEDULE, cron)
    /\ cron' = next_run'
    /\ pc' = AfterGetNext(next_run' - now)
    /\ caller' = "loop"
    /\ UNCHANGED <<config, now, fires, cycle_vars, redis_vars>>

\* main, line 377: time.sleep(wait_seconds), then run_backup is called
Sleep ==
    /\ pc = "sleep"
    /\ next_run <= MaxTime
    /\ now' = IF next_run > now THEN next_run ELSE now
    /\ pc' = "run_backup"
    /\ UNCHANGED <<config, sched, cycle_vars, redis_vars>>

\* ----------------------------------------------------------- run_backup
\* run_backup, lines 292-294: the CycleId and the working directory; mkdir
\* is outside the try block, so its failure leaves run_backup at once
RunBackupStart ==
    /\ pc = "run_backup"
    /\ timestamp' = now
    /\ final_path' = NoFile
    /\ destinations' = <<>>
    /\ dest_i' = 0
    /\ archive_members' = NoFiles
    /\ work_files' = IF [kind |-> "work", ts |-> now] \in DOMAIN store
                     THEN work_files ELSE NoFiles
    /\ \E ok \in BOOLEAN :
          IF ok
          THEN /\ store' = IF [kind |-> "work", ts |-> now] \in DOMAIN store
                           THEN store
                           ELSE WriteFile(store, [kind |-> "work", ts |-> now], now)
               /\ trace' = <<Ev("mkdir", 0, "ok")>>
               /\ exc' = "none"
               /\ outcome' = "none"
               /\ pc' = "pg_dump"
          ELSE /\ store' = store
               /\ trace' = <<Ev("mkdir", 0, "error")>>
               /\ exc' = "mkdir"
               /\ outcome' = "Failed"
               /\ pc' = "return"
    /\ fires' = IF caller = "loop" THEN Append(fires, next_run) ELSE fires
    /\ UNCHANGED <<config, now, cron, next_run, caller, redis_vars>>

\* time passing while a step of the cycle runs
Tick ==
    /\ InCycle
    /\ now < MaxTime
    /\ now' = now + 1
    /\ UNCHANGED <<config, pc, sched, cycle_vars, redis_vars>>

\* run_pg_dump, lines 56-76
RunPgDump ==
    /\ pc = "pg_dump"
    /\ \E res \in SubprocessResults :
          /\ trace' = Append(trace, Ev("pg_dump", 0, res))
          /\ IF res = "ok"
             THEN /\ work_files' = AddFile(work_files, "database.dump", "complete")
                  /\ pc' = "redis_trigger"
                  /\ exc' = exc
             ELSE /\ work_files' = work_files
                  /\ pc' = "except"
                  /\ exc' = "pg_dump"
    /\ UNCHANGED <<config, now, sched, timestamp, store, archive_members,
                   final_path, destinations, dest_i, outcome, redis_vars>>

\* run_redis_backup, lines 83-98: ping, lastsave, bgsave; every exception
\* is caught at lines 119-122
RedisTrigger ==
    /\ pc = "redis_trigger"
    /\ \E res \in {"ok", "conn_error", "trigger_error"} :
          IF res = "ok"
          THEN /\ last_save' = server_lastsave
               /\ start' = now
               /\ trace' = Append(trace, Ev("bgsave", 0, "ok"))
               /\ pc' = "redis_poll"
          ELSE /\ UNCHANGED <<last_save, start>>
               /\ trace' = Append(trace, Ev("redis", 0, res))
               /\ pc' = "tar_volumes"
    /\ UNCHANGED <<config, now, sched, timestamp, files, final_path,
                   destinations, dest_i, exc, outcome, server_lastsave>>

\* variant of Advanced: a save time equal to the one read before the
\* trigger counts as a new save
AdvancedOrEqual(current_save, pre_trigger) == current_save >= pre_trigger

\* the test of line 101
Advanced(current_save, pre_trigger) == current_save > pre_trigger

\* run_redis_backup, lines 99-105: one pass of the poll loop; the server may
\* finish a save, stamped with the current time, before lastsave is read.
\* The locals last_save and start are cleared when the function is left.
RedisPoll ==
    /\ pc = "redis_poll"
    /\ IF now - start < PollTimeout
       THEN \E res \in {"read", "conn_error"}, saved \in BOOLEAN :
               /\ server_lastsave' = IF saved THEN now ELSE server_lastsave
               /\ IF res = "conn_error"
                  THEN /\ trace' = Append(trace, Ev("redis", 0, "conn_error"))
                       /\ pc' = "tar_volumes"
                       /\ now' = now
                       /\ last_save' = 0
                       /\ start' = 0
                  ELSE IF Advanced(server_lastsave', last_save)
                       THEN /\ trace' = Append(trace, Ev("poll", 0, "advanced"))
                            /\ pc' = "redis_copy"
                            /\ now' = now
                            /\ last_save' = 0
                            /\ start' = 0
                       ELSE /\ now < MaxTime
                            /\ trace' = trace
                            /\ pc' = "redis_poll"
                            /\ now' = now + 1
                            /\ UNCHANGED <<last_save, start>>
       ELSE /\ trace' = Append(trace, Ev("redis", 0, "timeout"))
            /\ pc' = "tar_volumes"
            /\ last_save' = 0
            /\ start' = 0
            /\ UNCHANGED <<now, server_lastsave>>
    /\ UNCHANGED <<config, sched, timestamp, files, final_path, destinations,
                   dest_i, exc, outcome>>

\* run_redis_backup, lines 108-117: copy dump.rdb into the working
\* directory; gzip.open creates the output file before the copy runs
RedisCopy ==
    /\ pc = "redis_copy"
    /\ \E res \in {"ok", "missing", "open_error", "copy_error"} :
          /\ trace' = Append(trace, Ev("redis", 0, res))
          /\ work_files' = CASE res = "ok" ->
                                  AddFile(work_files, "redis.rdb.gz", "complete")
                             [] res = "copy_error" ->
                                  AddFile(work_files, "redis.rdb.gz", "partial")
                             [] OTHER -> work_files
    /\ pc' = "tar_volumes"
    /\ UNCHANGED <<config, now, sched, timestamp, store, archive_members,
                   final_path, destinations, dest_i, exc, outcome, redis_vars>>

\* tar_volume_data, lines 125-137
TarVolumeData ==
    /\ pc = "tar_volumes"
    /\ \E res \in {"ok", "error"} :
          /\ trace' = Append(trace, Ev("tar_volumes", 0, res))
          /\ IF res = "ok"
             THEN /\ work_files' = AddFile(work_files, "volumes.tar.gz", "complete")
                  /\ pc' = "create_final_archive"
                  /\ exc' = exc
             ELSE /\ work_files' = work_files
                  /\ pc' = "except"
                  /\ exc' = "tar_volumes"
    /\ UNCHANGED <<config, now, sched, timestamp, store, archive_members,
                   final_path, destinations, dest_i, outcome, redis_vars>>

\* the members create_final_archive adds (lines 146-149): the dump, the
\* volume archive and redis.rdb.gz whenever that file exists
ArchiveMembers(listing) ==
    [n \in DOMAIN listing \cap {"database.dump", "volumes.tar.gz", "redis.rdb.gz"}
        |-> listing[n]]

\* create_final_archive, lines 140-153: the archive is written straight into
\* BACKUP_DIR; tarfile.open creates the file before the members are added
CreateFinalArchive ==
    /\ pc = "create_final_archive"
    /\ \E res \in {"ok", "open_error", "add_error"} :
          /\ trace' = Append(trace, Ev("create_final_archive", 0, res))
          /\ store' = IF res = "open_error"
                       THEN store
                       ELSE WriteFile(store, archive_path, now)
          /\ archive_members' = IF res = "ok" THEN ArchiveMembers(work_files)
                                 ELSE NoFiles
          /\ IF res = "ok"
             THEN pc' = "encrypt_archive" /\ exc' = exc
             ELSE pc' = "except" /\ exc' = "create_final_archive"
    /\ UNCHANGED <<config, now, sched, timestamp, work_files, final_path,
                   destinations, dest_i, outcome, redis_vars>>

\* variant of AfterEncrypt: the exit status of gpg is not looked at
AfterEncryptIgnoringExit(res) == "upload"

\* where run_backup goes after gpg returned res (lines 175-176, 313)
AfterEncrypt(res) == IF res = "ok" THEN "upload" ELSE "except"

\* variant of EncryptArchive: the plaintext archive is not unlinked after gpg
\* has written the encrypted one
EncryptArchiveKeepingPlaintext ==
    /\ pc = "encrypt_archive"
    /\ IF BACKUP_ENCRYPTION_KEY = ""
       THEN /\ final_path' = archive_path
            /\ pc' = "upload"
            /\ UNCHANGED <<store, trace, exc>>
       ELSE \E res \in SubprocessResults, partial \in BOOLEAN :
               /\ partial => res = "timeout"
               /\ trace' = Append(trace, Ev("gpg", 0, res))
               /\ pc' = AfterEncrypt(res)
               /\ IF res = "ok"
                  THEN /\ store' = WriteFile(store, encrypted_path, now)
                       /\ final_path' = encrypted_path
                  ELSE /\ store' = IF partial
                                   THEN WriteFile(store, encrypted_path, now)
                                   ELSE store
                       /\ final_path' = final_path
               /\ exc' = IF pc' = "except" THEN "encrypt_archive" ELSE exc
    /\ UNCHANGED <<config, now, sched, timestamp, work_files, archive_members,
                   destinations, dest_i, outcome, redis_vars>>

\* encrypt_archive, lines 156-182: without a key the path is returned as it
\* is; with a key gpg writes <archive>.gpg and the plaintext is unlinked
EncryptArchive ==
    /\ pc = "encrypt_archive"
    /\ IF BACKUP_ENCRYPTION_KEY = ""
       THEN /\ final_path' = archive_path
            /\ pc' = "upload"
            /\ UNCHANGED <<store, trace, exc>>
       ELSE \E res \in SubprocessResults, partial \in BOOLEAN :
               /\ partial => res = "timeout"
               /\ trace' = Append(trace, Ev("gpg", 0, res))
               /\ pc' = AfterEncrypt(res)
               /\ IF res = "ok"
                  THEN /\ store' = RemoveFile(
                                     WriteFile(store, encrypted_path, now),
                                     archive_path)
                       /\ final_path' = encrypted_path
                  ELSE /\ store' = IF partial
                                   THEN WriteFile(store, encrypted_path, now)
                                   ELSE store
                       /\ final_path' = final_path
               /\ exc' = IF pc' = "except" THEN "encrypt_archive" ELSE exc
    /\ UNCHANGED <<config, now, sched, timestamp, work_files, archive_members,
                   destinations, dest_i, outcome, redis_vars>>

\* upload_to_destinations, lines 187-194: nothing to do without a setting
\* or without a destination in it
UploadToDestinations ==
    /\ pc = "upload"
    /\ IF BACKUP_RCLONE_DESTINATIONS = <<>>
       THEN /\ pc' = "delete_local"
            /\ UNCHANGED <<destinations, dest_i>>
       ELSE /\ destinations' = ParseDestinations(BACKUP_RCLONE_DESTINATIONS)
            /\ IF destinations' = <<>>
               THEN pc' = "delete_local" /\ dest_i' = dest_i
               ELSE pc' = "upload_one" /\ dest_i' = 1
    /\ UNCHANGED <<config, now, sched, timestamp, files, final_path, exc,
                   outcome, trace, redis_vars>>

\* variant of AfterUpload: a failed upload is passed over and the loop goes on
AfterUploadContinuing(res, i, n) ==
    IF i < n THEN "upload_one" ELSE "delete_local"

\* variant of AfterUpload: the loop is left after the first upload that
\* succeeded
AfterUploadFirstOnly(res, i, n) ==
    IF res # "ok" THEN "except" ELSE "delete_local"

\* where the upload loop goes after rclone copyto returned res for the
\* i-th of n destinations (lines 206-208)
AfterUpload(res, i, n) ==
    IF res # "ok" THEN "except"
    ELSE IF i < n THEN "upload_one" ELSE "delete_local"

\* upload_to_destinations, lines 196-208: one pass of the loop
UploadOne ==
    /\ pc = "upload_one"
    /\ \E res \in SubprocessResults :
          /\ trace' = Append(trace, Ev("upload", dest_i, res))
          /\ pc' = AfterUpload(res, dest_i, Len(destinations))
          /\ dest_i' = IF pc' = "upload_one" THEN dest_i + 1 ELSE dest_i
          /\ exc' = IF pc' = "except" THEN "upload" ELSE exc
    /\ UNCHANGED <<config, now, sched, timestamp, files, final_path,
                   destinations, outcome, redis_vars>>

\* the condition of line 321
DeleteLocalCondition ==
    BACKUP_DELETE_LOCAL_AFTER_UPLOAD /\ BACKUP_RCLONE_DESTINATIONS # <<>>

\* run_backup, lines 318-323: delete the local copy after the upload
DeleteLocal ==
    /\ pc = "delete_local"
    /\ IF DeleteLocalCondition
       THEN /\ store' = RemoveFile(store, final_path)
            /\ trace' = Append(trace, Ev("delete_local", 0, "ok"))
       ELSE UNCHANGED <<store, trace>>
    /\ pc' = "cleanup_old"
    /\ UNCHANGED <<config, now, sched, timestamp, work_files, archive_members,
                   final_path, destinations, dest_i, exc, outcome, redis_vars>>

\* variant of OldBackups: every entry of the directory is looked at, not
\* only the regular files matching n8n-backup-*
OldBackupsOfAnyName(st, t, days) ==
    IF days <= 0 THEN {}
    ELSE {f \in DOMAIN st : st[f] < t - days}

\* the files cleanup_old_backups unlinks (lines 213-220): glob n8n-backup-*,
\* regular files, modified before the cutoff
OldBackups(st, t, days) ==
    IF days <= 0 THEN {}
    ELSE {f \in DOMAIN st : /\ f.kind \in {"tar", "gpg"}
                            /\ st[f] < t - days}

\* cleanup_old_backups, lines 211-226
CleanupOldBackups ==
    /\ pc = "cleanup_old"
    /\ LET old == OldBackups(store, now, BACKUP_RETENTION_DAYS)
       IN  /\ store' = [f \in DOMAIN store \ old |-> store[f]]
           /\ trace' = Append(trace, Ev("cleanup_old", Cardinality(old), "ok"))
    /\ pc' = "cleanup_remote"
    /\ UNCHANGED <<config, now, sched, timestamp, work_files, archive_members,
                   final_path, destinations, dest_i, exc, outcome, redis_vars>>

\* cleanup_remote_backups, lines 231-235
CleanupRemoteBackups ==
    /\ pc = "cleanup_remote"
    /\ IF BACKUP_RCLONE_DESTINATIONS = <<>> \/ BACKUP_RETENTION_DAYS <= 0
       THEN /\ pc' = "notify_success"
            /\ UNCHANGED <<destinations, dest_i>>
       ELSE /\ destinations' = ParseDestinations(BACKUP_RCLONE_DESTINATIONS)
            /\ IF destinations' = <<>>
               THEN pc' = "notify_success" /\ dest_i' = dest_i
               ELSE pc' = "cleanup_remote_one" /\ dest_i' = 1
    /\ UNCHANGED <<config, now, sched, timestamp, files, final_path, exc,
                   outcome, trace, redis_vars>>

\* where the pruning loop goes after rclone delete returned res for the
\* i-th of n destinations (lines 244-248): a non-zero exit is logged, a
\* TimeoutExpired is raised by subprocess.run and not caught in the loop
AfterRemoteCleanup(res, i, n) ==
    IF res = "timeout" THEN "except"
    ELSE IF i < n THEN "cleanup_remote_one" ELSE "notify_success"

\* cleanup_remote_backups, lines 235-248: one pass of the loop
CleanupRemoteOne ==
    /\ pc = "cleanup_remote_one"
    /\ \E res \in SubprocessResults :
          /\ trace' = Append(trace, Ev("rclone_delete", dest_i, res))
          /\ pc' = AfterRemoteCleanup(res, dest_i, Len(destinations))
          /\ dest_i' = IF pc' = "cleanup_remote_one" THEN dest_i + 1 ELSE dest_i
          /\ exc' = IF pc' = "except" THEN "cleanup_remote" ELSE exc
    /\ UNCHANGED <<config, now, sched, timestamp, files, final_path,
                   destinations, outcome, redis_vars>>

\* the conditions of lines 253 and 269
email_configured == SMTP_HOST # "" /\ SMTP_TO # ""

webhook_configured == BACKUP_WEBHOOK_URL # ""

\* what happens to the message on one channel: it goes out, or an Exception
\* is raised on the way and caught at line 266 or 286
ChannelResults == {"sent", "error"}

\* variant of Attempts: both channels share one try block, so a failure of
\* the email leaves the webhook out
AttemptsInOneTry(mail, hook) ==
    (IF email_configured THEN <<Ev("email", 0, mail)>> ELSE <<>>)
    \o (IF webhook_configured /\ ~(email_configured /\ mail = "error")
        THEN <<Ev("webhook", 0, hook)>> ELSE <<>>)

\* send_notification, lines 253-287: the email, then the webhook, each in
\* a try block of its own
Attempts(mail, hook) ==
    (IF email_configured THEN <<Ev("email", 0, mail)>> ELSE <<>>)
    \o (IF webhook_configured THEN <<Ev("webhook", 0, hook)>> ELSE <<>>)

\* the events of one call of send_notification
send_notification(event, mail, hook) ==
    <<Ev("notify", 0, event)>> \o Attempts(mail, hook)

\* run_backup, lines 328-332: the success notification; send_notification
\* returns whatever happened on the channels
NotifySuccess ==
    /\ pc = "notify_success"
    /\ \E mail \in ChannelResults, hook \in ChannelResults :
          trace' = trace \o send_notification("success", mail, hook)
    /\ pc' = "finally"
    /\ UNCHANGED <<config, now, sched, timestamp, files, final_path,
                   destinations, dest_i, exc, outcome, redis_vars>>

\* variant of Except: the working directory is removed in the handler,
\* before the failure notification goes out
ExceptAfterCleanup ==
    /\ pc = "except"
    /\ store' = RemoveFile(store, work_dir)
    /\ work_files' = NoFiles
    /\ \E mail \in ChannelResults, hook \in ChannelResults :
          trace' = trace \o send_notification("failure", mail, hook)
    /\ pc' = "finally"
    /\ UNCHANGED <<config, now, sched, timestamp, archive_members, final_path,
                   destinations, dest_i, exc, outcome, redis_vars>>

\* run_backup, lines 334-341: the failure notification, then re-raise
Except ==
    /\ pc = "except"
    /\ \E mail \in ChannelResults, hook \in ChannelResults :
          trace' = trace \o send_notification("failure", mail, hook)
    /\ pc' = "finally"
    /\ UNCHANGED <<config, now, sched, timestamp, files, final_path,
                   destinations, dest_i, exc, outcome, redis_vars>>

\* variant of RemoveWorkDir: the working directory is left in place
RemoveWorkDirSkipped(st, wd) == st

\* the store after the finally block (lines 344-345)
RemoveWorkDir(st, wd) == IF wd \in DOMAIN st THEN RemoveFile(st, wd) ELSE st

\* variant of Finally: the working directory is removed at the end of the
\* try block, so only when no exception is pending
FinallyOnSuccessOnly ==
    /\ pc = "finally"
    /\ store' = IF exc = "none" THEN RemoveFile(store, work_dir) ELSE store
    /\ work_files' = IF work_dir \in DOMAIN store' THEN work_files ELSE NoFiles
    /\ trace' = Append(trace, Ev("finally", 0, "ok"))
    /\ outcome' = IF exc = "none" THEN "Done" ELSE "Failed"
    /\ pc' = "return"
    /\ UNCHANGED <<config, now, sched, timestamp, archive_members, final_path,
                   destinations, dest_i, exc, redis_vars>>

\* run_backup, lines 342-345: remove the working directory; run_backup then
\* returns, or raises the exception that is pending
Finally ==
    /\ pc = "finally"
    /\ store' = RemoveWorkDir(store, work_dir)
    /\ work_files' = IF work_dir \in DOMAIN store' THEN work_files ELSE NoFiles
    /\ trace' = Append(trace, Ev("finally", 0, "ok"))
    /\ outcome' = IF exc = "none" THEN "Done" ELSE "Failed"
    /\ pc' = "return"
    /\ UNCHANGED <<config, now, sched, timestamp, archive_members, final_path,
                   destinations, dest_i, exc, redis_vars>>

\* variant of AfterRunBackup: the exception of a failed cycle is not caught
AfterRunBackupUncaught(from, raised) ==
    IF raised THEN "crashed"
    ELSE IF from = "initial" THEN "seed" ELSE "get_next"

\* where main goes when run_backup has returned (raised = FALSE) or raised
\* an Exception (raised = TRUE): both try blocks catch it (lines 366, 381)
AfterRunBackup(from, raised) == IF from = "initial" THEN "seed" ELSE "get_next"

\* main, lines 364-367: the run-on-start cycle is over
InitialBackupOver ==
    /\ pc = "return"
    /\ caller = "initial"
    /\ pc' = AfterRunBackup(caller, outcome = "Failed")
    /\ UNCHANGED <<config, now, sched, cycle_vars, redis_vars>>

\* main, lines 379-382: a scheduled cycle is over
ScheduledBackupOver ==
    /\ pc = "return"
    /\ caller = "loop"
    /\ pc' = AfterRunBackup(caller, outcome = "Failed")
    /\ UNCHANGED <<config, now, sched, cycle_vars, redis_vars>>

\* ------------------------------------------------------- specification
Next ==
    \/ Validate
    \/ RunOnStart
    \/ Seed
    \/ GetNext
    \/ Sleep
    \/ RunBackupStart
    \/ Tick
    \/ RunPgDump
    \/ RedisTrigger
    \/ RedisPoll
    \/ RedisCopy
    \/ TarVolumeData
    \/ CreateFinalArchive
    \/ EncryptArchive
    \/ UploadToDestinations
    \/ UploadOne
    \/ DeleteLocal
    \/ CleanupOldBackups
    \/ CleanupRemoteBackups
    \/ CleanupRemoteOne
    \/ NotifySuccess
    \/ Except
    \/ Finally
    \/ InitialBackupOver
    \/ ScheduledBackupOver

Spec == Init /\ [][Next]_vars

\* the scheduler with the progress its single thread of control makes: a
\* step that can be taken is taken, subprocesses end by SUBPROCESS_TIMEOUT
\* and a sleep ends at its deadline
LiveInit ==
    /\ Init
    /\ BACKUP_SCHEDULE = Period
    /\ BACKUP_RETENTION_DAYS = MaxRetention
    /\ BACKUP_RCLONE_DESTINATIONS = <<"a", ",", "b">>
    /\ BACKUP_RUN_ON_START

LiveSpec == LiveInit /\ [][Next]_vars /\ WF_vars(Next)

\* the scheduler under schedules dense enough for a cycle to outlast one or
\* more fire times: an expression firing at every tick beside the one firing
\* every Period ticks, with one destination
SchedInit ==
    /\ BACKUP_SCHEDULE \in {1, Period}
    /\ BACKUP_RETENTION_DAYS = MaxRetention
    /\ BACKUP_ENCRYPTION_KEY \in EncryptionKeys
    /\ BACKUP_RCLONE_DESTINATIONS = <<"a">>
    /\ BACKUP_RUN_ON_START \in BOOLEAN
    /\ BACKUP_DELETE_LOCAL_AFTER_UPLOAD \in BOOLEAN
    /\ SMTP_HOST = ""
    /\ SMTP_TO = ""
    /\ BACKUP_WEBHOOK_URL = ""
    /\ ProcessStart

SchedSpec == SchedInit /\ [][Next]_vars

\* the cycle under every setting of the notification channels, with one
\* destination and one run-on-start cycle before the scheduled ones
NotifyInit ==
    /\ BACKUP_SCHEDULE = Period
    /\ BACKUP_RETENTION_DAYS = MaxRetention
    /\ BACKUP_ENCRYPTION_KEY \in EncryptionKeys
    /\ BACKUP_RCLONE_DESTINATIONS = <<"a">>
    /\ BACKUP_RUN_ON_START = TRUE
    /\ BACKUP_DELETE_LOCAL_AFTER_UPLOAD = TRUE
    /\ \E setting \in NotificationSettings :
          /\ SMTP_HOST = setting[1]
          /\ SMTP_TO = setting[2]
          /\ BACKUP_WEBHOOK_URL = setting[3]
    /\ ProcessStart

NotifySpec == NotifyInit /\ [][Next]_vars

\* ---------------------------------------------- cleanup_old_backups alone
\* names of things that may lie in BACKUP_DIR: backup artifacts, a working
\* directory, and a file the service did not write
PruneFiles ==
    { [kind |-> "tar", ts |-> 0], [kind |-> "gpg", ts |-> 0],
      [kind |-> "work", ts |-> 0], [kind |-> "other", ts |-> 0] }

\* cleanup_old_backups is entered with any retention setting, zero and
\* negative included, at any time, on any directory of PruneFiles with any
\* modification times
PruneInit ==
    /\ BACKUP_SCHEDULE = Period
    /\ BACKUP_RETENTION_DAYS \in -1..MaxRetention
    /\ BACKUP_ENCRYPTION_KEY = ""
    /\ BACKUP_RCLONE_DESTINATIONS = <<>>
    /\ BACKUP_RUN_ON_START = FALSE
    /\ BACKUP_DELETE_LOCAL_AFTER_UPLOAD = FALSE
    /\ SMTP_HOST = ""
    /\ SMTP_TO = ""
    /\ BACKUP_WEBHOOK_URL = ""
    /\ pc = "cleanup_old"
    /\ now \in 0..MaxTime
    /\ \E present \in SUBSET PruneFiles :
          store \in [present -> 0..MaxTime]
    /\ cron = 0
    /\ next_run = 0
    /\ caller = "none"
    /\ fires = <<>>
    /\ timestamp = 0
    /\ work_files = NoFiles
    /\ archive_members = NoFiles
    /\ final_path = NoFile
    /\ destinations = <<>>
    /\ dest_i = 0
    /\ exc = "none"
    /\ outcome = "none"
    /\ trace = <<>>
    /\ last_save = 0
    /\ start = 0
    /\ server_lastsave = 0

\* cleanup_old_backups, lines 211-226, called once more with the clock and
\* the setting as they were
CleanupOldBackupsAgain ==
    /\ pc = "cleanup_remote"
    /\ LET old == OldBackups(store, now, BACKUP_RETENTION_DAYS)
       IN  /\ store' = [f \in DOMAIN store \ old |-> store[f]]
           /\ trace' = Append(trace, Ev("cleanup_old", Cardinality(old), "ok"))
    /\ pc' = "cleanup_old_done"
    /\ UNCHANGED <<config, now, sched, timestamp, work_files, archive_members,
                   final_path, destinations, dest_i, exc, outcome, redis_vars>>

PruneNext ==
    \/ CleanupOldBackups
    \/ CleanupOldBackupsAgain

PruneSpec == PruneInit /\ [][PruneNext]_vars

\* ------------------------------------------------------------- claims
\* the events of one step in the trace of the current cycle
Events(step) == SelectSeq(trace, LAMBDA e : e.step = step)

WorkDirs == {f \in DOMAIN store : f.kind = "work"}

\* run_backup is between the mkdir of line 294 and the end of its finally
InPipeline ==
    pc \in {"pg_dump", "redis_trigger", "redis_poll", "redis_copy",
            "tar_volumes", "create_final_archive", "encrypt_archive",
            "upload", "upload_one", "delete_local", "cleanup_old",
            "cleanup_remote", "cleanup_remote_one", "notify_success",
            "except", "finally"}

\* C1: while the steps of a cycle execute its WorkingArea work-<CycleId>
\* exists and is the only one; once run_backup has returned or raised, and
\* at any other time, no WorkingArea exists
C1_WorkingAreaLifetime ==
    /\ Cardinality(WorkDirs) <= 1
    /\ InPipeline => WorkDirs = {work_dir}
    /\ ~InPipeline => WorkDirs = {}

\* a cycle got as far as the upload, failed there, and run_backup has raised
C1_Witness ==
    /\ pc = "return"
    /\ outcome = "Failed"
    /\ exc = "upload"
    /\ WorkDirs = {}

\* C2: after a cycle ended Failed, the local store holds neither the
\* WorkingArea nor a FinalArchive file (plaintext or encrypted) of that
\* cycle, and no step of the cycle ran twice
C2_FailedCycleLeavesNothing ==
    (pc = "return" /\ outcome = "Failed") =>
        /\ \A f \in DOMAIN store : f.ts # timestamp
        /\ \A step \in {"mkdir", "pg_dump", "bgsave", "tar_volumes",
                        "create_final_archive", "gpg", "notify"} :
              Len(Events(step)) <= 1

\* the mandatory steps that precede the upload
BeforeUpload ==
    {"mkdir", "pg_dump", "tar_volumes", "create_final_archive", "gpg"}

\* C3: in a cycle where a mandatory step before the upload failed (dump,
\* volume archive, bundling, encryption), no upload is attempted
C3_NoUploadAfterMandatoryFailure ==
    (\E i \in 1..Len(trace) :
        trace[i].step \in BeforeUpload /\ trace[i].res # "ok")
    => Events("upload") = <<>>

\* encryption failed in a cycle that has destinations to upload to
C3_Witness ==
    /\ pc = "return"
    /\ exc = "encrypt_archive"
    /\ ParseDestinations(BACKUP_RCLONE_DESTINATIONS) # <<>>
    /\ Events("upload") = <<>>

\* C4: the uploads of a cycle go to the configured destinations in order,
\* each at most once; after a failed upload no further destination is
\* attempted and the cycle ends Failed
C4_UploadsInOrderStopAtFailure ==
    LET ups == Events("upload")
    IN  /\ Len(ups) <= Len(ParseDestinations(BACKUP_RCLONE_DESTINATIONS))
        /\ \A j \in 1..Len(ups) :
              /\ ups[j].arg = j
              /\ j < Len(ups) => ups[j].res = "ok"
        /\ (ups # <<>> /\ ups[Len(ups)].res # "ok") =>
              /\ exc = "upload"
              /\ pc \notin {"upload_one", "delete_local", "cleanup_old",
                            "cleanup_remote", "cleanup_remote_one",
                            "notify_success"}
              /\ pc \notin {"except", "finally"} => outcome = "Failed"

\* of three destinations the second failed and the third was not attempted
C4_Witness ==
    /\ pc = "return"
    /\ Len(ParseDestinations(BACKUP_RCLONE_DESTINATIONS)) = 3
    /\ Len(Events("upload")) = 2
    /\ Events("upload")[2].res # "ok"
    /\ outcome = "Failed"

\* the ways the store-snapshot step fails
SnapshotFailures ==
    {"conn_error", "trigger_error", "timeout", "missing", "open_error",
     "copy_error"}

\* the store-snapshot step of the current cycle failed and no other step did
OnlySnapshotFailed ==
    /\ \E i \in 1..Len(trace) :
          trace[i].step = "redis" /\ trace[i].res \in SnapshotFailures
    /\ \A i \in 1..Len(trace) :
          trace[i].step \notin {"redis", "email", "webhook"} =>
              trace[i].res \in {"ok", "advanced", "success"}

\* C5: a cycle in which only the store-snapshot step failed reaches Done with
\* a success notification, and its FinalArchive has no snapshot member
C5_SnapshotFailureDegrades ==
    (pc = "return" /\ OnlySnapshotFailed) =>
        /\ outcome = "Done"
        /\ Events("notify") = <<Ev("notify", 0, "success")>>
        /\ "redis.rdb.gz" \notin DOMAIN archive_members

\* C6: when run_backup has returned or raised, exactly one notification was
\* dispatched in the cycle: success iff it reached Done, failure iff Failed
C6_ExactlyOneNotification ==
    pc = "return" =>
        /\ Len(Events("notify")) = 1
        /\ Events("notify")[1].res = "success" <=> outcome = "Done"
        /\ Events("notify")[1].res = "failure" <=> outcome = "Failed"

\* a cycle has ended Failed and the schedule has a fire time left on the clock
FailedCycleOver ==
    /\ pc = "return"
    /\ outcome = "Failed"
    /\ get_next(BACKUP_SCHEDULE, IF caller = "initial" THEN now ELSE cron)
          <= MaxTime

Rank(e) ==
    CASE e.step = "mkdir" -> 10
      [] e.step = "pg_dump" -> 20
      [] e.step = "bgsave" -> 30
      [] e.step = "poll" -> 40
      [] e.step = "redis" -> 50
      [] e.step = "tar_volumes" -> 60
      [] e.step = "create_final_archive" -> 70
      [] e.step = "gpg" -> 80
      [] e.step = "upload" -> 90 + e.arg
      [] e.step = "delete_local" -> 100
      [] e.step = "cleanup_old" -> 110
      [] e.step = "rclone_delete" -> 120 + e.arg
      [] e.step = "notify" -> 130
      [] e.step = "email" -> 131
      [] e.step = "webhook" -> 132
      [] e.step = "finally" -> 140

\* C8: run_backup is called only when no cycle is in flight: the previous
\* cycle, if there was one, has ended Done or Failed and no WorkingArea is
\* left; the steps of a cycle run one after the other in pipeline order
C8_OneCycleInFlight ==
    /\ pc = "run_backup" =>
          /\ WorkDirs = {}
          /\ trace = <<>> \/ outcome \in {"Done", "Failed"}
    /\ InPipeline => outcome = "none"
    /\ \A i \in 1..Len(trace) - 1 : Rank(trace[i]) < Rank(trace[i + 1])

\* a second cycle is about to start after one that ran its whole pipeline
C8_Witness ==
    /\ pc = "run_backup"
    /\ outcome = "Done"
    /\ Events("finally") # <<>>

\* C9: the local FinalArchive is unlinked by step 7 only if the flag is set
\* and a destination received the upload, and only in a cycle that succeeds;
\* when the setting holds no destination the local copy is kept
C9_DeleteLocalOnlyAfterUpload ==
    /\ Events("delete_local") # <<>> =>
          /\ BACKUP_DELETE_LOCAL_AFTER_UPLOAD
          /\ \E i \in 1..Len(trace) :
                trace[i].step = "upload" /\ trace[i].res = "ok"
          /\ pc = "return" => outcome = "Done"
    /\ ParseDestinations(BACKUP_RCLONE_DESTINATIONS) = <<>> =>
          Events("delete_local") = <<>>

\* C10: a cycle in which remote pruning failed on a destination (non-zero
\* exit or timeout) still prunes every destination and ends Done with a
\* success notification
C10_RemotePruneFailureTolerated ==
    (/\ pc = "return"
     /\ \E i \in 1..Len(trace) :
           trace[i].step = "rclone_delete" /\ trace[i].res # "ok")
    => /\ outcome = "Done"
       /\ Events("notify") = <<Ev("notify", 0, "success")>>
       /\ Len(Events("rclone_delete")) = Len(destinations)

\* C11: every fire time the loop computes is strictly after the clock at the
\* moment it is computed, whatever the length of the cycle before it, so the
\* loop always waits before it calls run_backup
C11_FireTimeAfterNow ==
    [][pc = "get_next" => (next_run' > now' /\ pc' = "sleep")]_vars

\* C12: with a schedule expression that does not validate the process exits
\* with status 1 at startup and never starts a cycle nor seeds the iterator,
\* whether or not run-on-start is configured; only then does it exit
C12_InvalidScheduleExits ==
    /\ ~croniter_is_valid(BACKUP_SCHEDULE) =>
          /\ pc \in {"main", "exit1"}
          /\ caller = "none"
          /\ trace = <<>>
          /\ fires = <<>>
          /\ store = NoFiles
    /\ pc = "exit1" => ~croniter_is_valid(BACKUP_SCHEDULE)

\* the process has exited on an invalid schedule although run-on-start is set
C12_Witness ==
    /\ pc = "exit1"
    /\ BACKUP_RUN_ON_START
    /\ ~croniter_is_valid(BACKUP_SCHEDULE)

\* C13: without an encryption key gpg is never run and the FinalArchive keeps
\* the name create_final_archive gave it; with a key the file handed to the
\* upload is always the one with the .gpg suffix, never the plaintext
C13_EncryptionSuffix ==
    /\ BACKUP_ENCRYPTION_KEY = "" =>
          /\ Events("gpg") = <<>>
          /\ final_path.kind \in {"none", "tar"}
          /\ pc \in {"upload", "upload_one"} => final_path = archive_path
    /\ (/\ BACKUP_ENCRYPTION_KEY # ""
        /\ pc \in {"upload", "upload_one"} \/ Events("upload") # <<>>) =>
          /\ final_path = [kind |-> "gpg", ts |-> timestamp]
          /\ Events("gpg") = <<Ev("gpg", 0, "ok")>>

\* with a key set, an upload is under way and the encrypted file has taken
\* the place of the plaintext in the backup directory
C13_Witness ==
    /\ pc = "upload_one"
    /\ BACKUP_ENCRYPTION_KEY # ""
    /\ final_path.kind = "gpg"
    /\ final_path \in DOMAIN store
    /\ archive_path \notin DOMAIN store

\* the FinalArchive files in the backup directory named for CycleId ts
ArchivesOf(ts) == {f \in DOMAIN store : f.kind \in {"tar", "gpg"} /\ f.ts = ts}

\* at the end of a cycle that ended Done one FinalArchive was bundled and
\* the backup directory holds at most one file named for the CycleId, the one
\* run_backup recorded; the WorkingArea of a cycle under way carries its CycleId
OneArchiveAtEnd ==
    /\ (pc = "return" /\ outcome = "Done") =>
          /\ Events("create_final_archive") =
                <<Ev("create_final_archive", 0, "ok")>>
          /\ final_path.ts = timestamp
          /\ final_path.kind \in {"tar", "gpg"}
          /\ Cardinality(ArchivesOf(timestamp)) <= 1
          /\ ArchivesOf(timestamp) \subseteq {final_path}
    /\ InPipeline => WorkDirs = {[kind |-> "work", ts |-> timestamp]}

\* C14: a cycle that ended Done bundled exactly one FinalArchive, named for
\* its CycleId; at its end the backup directory holds at most one file named
\* for that CycleId, never plaintext and encrypted together; the CycleId is
\* set when run_backup is entered and stays the same until the next call,
\* and the WorkingArea carries it
C14_OneFinalArchivePerCycle ==
    /\ []OneArchiveAtEnd
    /\ [][pc # "run_backup" => timestamp' = timestamp]_vars

\* a cycle started late, after the loop had started others, ended Done with a
\* key set, and its encrypted archive is the one file of its CycleId
C14_Witness ==
    /\ pc = "return"
    /\ outcome = "Done"
    /\ BACKUP_ENCRYPTION_KEY # ""
    /\ ArchivesOf(timestamp) = {[kind |-> "gpg", ts |-> timestamp]}
    /\ Len(fires) >= 3
    /\ fires[Len(fires)] < timestamp

\* the backup artifacts: the regular files named n8n-backup-*
IsArtifact(f) == f.kind \in {"tar", "gpg"}

\* C15: with N = BACKUP_RETENTION_DAYS > 0 cleanup_old_backups removes exactly
\* the backup artifacts modified before now - N and leaves every other entry
\* (newer artifacts, working directories, other files) and every
\* modification time as it was; with N <= 0 it removes nothing; called again
\* with the same clock it removes nothing
C15_LocalPruningExact ==
    [][/\ pc = "cleanup_old" =>
             /\ DOMAIN store' \subseteq DOMAIN store
             /\ \A f \in DOMAIN store' : store'[f] = store[f]
             /\ BACKUP_RETENTION_DAYS > 0 =>
                   DOMAIN store \ DOMAIN store' =
                      {f \in DOMAIN store :
                          /\ IsArtifact(f)
                          /\ store[f] < now - BACKUP_RETENTION_DAYS}
             /\ BACKUP_RETENTION_DAYS <= 0 => store' = store
       /\ pc = "cleanup_remote" => store' = store]_vars

\* two calls in a row: the first removed an artifact and kept a newer one, a
\* working directory and a foreign file as old as the one removed; the
\* second removed nothing
C15_Witness ==
    /\ pc = "cleanup_old_done"
    /\ trace = <<Ev("cleanup_old", 1, "ok"), Ev("cleanup_old", 0, "ok")>>
    /\ \E f \in DOMAIN store : IsArtifact(f)
    /\ \E f \in DOMAIN store :
          f.kind = "other" /\ store[f] < now - BACKUP_RETENTION_DAYS
    /\ \E f \in DOMAIN store :
          f.kind = "work" /\ store[f] < now - BACKUP_RETENTION_DAYS

\* a step failed in a way run_backup does not absorb: a mandatory step or an
\* upload did not succeed, or rclone delete ran into its timeout
StepRaised ==
    \E i \in 1..Len(trace) :
        \/ trace[i].step \in BeforeUpload \cup {"upload"} /\ trace[i].res # "ok"
        \/ trace[i].step = "rclone_delete" /\ trace[i].res = "timeout"

\* C16: send_notification never raises: whatever happens on a channel, each
\* configured channel is attempted exactly once per notification, whether or
\* not the other failed, and a channel that is not configured is not attempted;
\* the outcome of the cycle depends on its steps alone, and the exception a
\* failed cycle raises is the one of the step that failed
C16_NotificationNeverPropagates ==
    /\ Len(Events("email")) =
          IF email_configured THEN Len(Events("notify")) ELSE 0
    /\ Len(Events("webhook")) =
          IF webhook_configured THEN Len(Events("notify")) ELSE 0
    /\ pc = "return" =>
          /\ outcome = "Failed" <=> StepRaised
          /\ outcome = "Done" <=> ~StepRaised
          /\ exc \in {"none", "mkdir", "pg_dump", "tar_volumes",
                       "create_final_archive", "encrypt_archive", "upload",
                       "cleanup_remote"}
          /\ exc = "none" <=> ~StepRaised

\* every step of a cycle succeeded, the email failed, the webhook was still
\* attempted, and the cycle ended Done
C16_Witness ==
    /\ pc = "return"
    /\ outcome = "Done"
    /\ Events("notify") = <<Ev("notify", 0, "success")>>
    /\ Events("email") = <<Ev("email", 0, "error")>>
    /\ Events("webhook") # <<>>

\* the place of an event among the steps from the upload on; 0 for the
\* events that are none of them
PostUploadOrder(e) ==
    CASE e.step = "upload" -> 1
      [] e.step = "delete_local" -> 2
      [] e.step = "cleanup_old" -> 3
      [] e.step = "rclone_delete" -> 4
      [] e.step = "notify" /\ e.res = "success" -> 5
      [] OTHER -> 0

\* the events of the current cycle from the upload on
PostUploadEvents == SelectSeq(trace, LAMBDA e : PostUploadOrder(e) > 0)

\* every configured destination received the upload
AllUploaded ==
    /\ Len(Events("upload")) = Len(ParseDestinations(BACKUP_RCLONE_DESTINATIONS))
    /\ \A i \in 1..Len(Events("upload")) : Events("upload")[i].res = "ok"

\* the number of rclone delete calls a pruning pass over the remotes makes
RemotePruneCalls ==
    IF BACKUP_RCLONE_DESTINATIONS = <<>> \/ BACKUP_RETENTION_DAYS <= 0
    THEN 0
    ELSE Len(ParseDestinations(BACKUP_RCLONE_DESTINATIONS))

\* C17: from the upload on the steps of a cycle run in the order upload,
\* delete-local, local pruning, remote pruning, success notification;
\* delete-local and pruning start only after every configured destination
\* received the upload; the success notification is sent only after local
\* pruning and every remote pruning call have returned; a cycle in which a
\* mandatory step or an upload failed deletes and prunes nothing
C17_PostUploadOrder ==
    /\ \A i \in 1..Len(PostUploadEvents) - 1 :
          PostUploadOrder(PostUploadEvents[i])
             <= PostUploadOrder(PostUploadEvents[i + 1])
    /\ (\E i \in 1..Len(trace) : PostUploadOrder(trace[i]) > 1) => AllUploaded
    /\ Events("notify") = <<Ev("notify", 0, "success")>> =>
          /\ Len(Events("cleanup_old")) = 1
          /\ Len(Events("rclone_delete")) = RemotePruneCalls
          /\ BACKUP_DELETE_LOCAL_AFTER_UPLOAD /\ Events("upload") # <<>>
                => Len(Events("delete_local")) = 1
    /\ Events("delete_local") # <<>> => BACKUP_DELETE_LOCAL_AFTER_UPLOAD
    /\ (\E i \in 1..Len(trace) :
           trace[i].step \in BeforeUpload \cup {"upload"} /\ trace[i].res # "ok")
       => \A i \in 1..Len(trace) :
             trace[i].step \notin {"delete_local", "cleanup_old", "rclone_delete"}

\* a cycle with three destinations uploaded to all of them, deleted the local
\* copy, pruned locally and on the three remotes, and notified success
C17_Witness ==
    /\ pc = "return"
    /\ outcome = "Done"
    /\ Len(Events("upload")) = 3
    /\ Len(Events("delete_local")) = 1
    /\ Len(Events("cleanup_old")) = 1
    /\ Len(Events("rclone_delete")) = 3
    /\ Events("notify") = <<Ev("notify", 0, "success")>>

\* the failure notification of the current cycle has been dispatched
FailureNotified == Events("notify") = <<Ev("notify", 0, "failure")>>

\* C18 as stated: once the failure notification of a cycle has been
\* dispatched, and so at the moment of its dispatch, the WorkingArea of the
\* cycle no longer exists
C18_WorkingAreaGoneAtFailureNotification ==
    FailureNotified => [kind |-> "work", ts |-> timestamp] \notin DOMAIN store

\* C18 amended: the failure notification is dispatched in the except block
\* while the WorkingArea still exists; the finally block removes the
\* WorkingArea after it, before run_backup raises
C18_FailureNotificationBeforeCleanup ==
    /\ pc = "except" => WorkDirs = {work_dir}
    /\ (pc = "finally" /\ exc # "none") =>
          /\ FailureNotified
          /\ WorkDirs = {work_dir}
    /\ (pc = "return" /\ FailureNotified) =>
          /\ WorkDirs = {}
          /\ trace[Len(trace)] = Ev("finally", 0, "ok")
          /\ outcome = "Failed"

\* the dump failed, the failure notification is out and the WorkingArea is
\* still in the backup directory
C18_Witness ==
    /\ pc = "finally"
    /\ exc = "pg_dump"
    /\ FailureNotified
    /\ work_dir \in DOMAIN store

\* the clock has room for the poll loop to run into its timeout
SnapshotHasTime ==
    IF pc = "redis_poll" THEN start + PollTimeout <= MaxTime
    ELSE now + PollTimeout <= MaxTime

\* the last-save time is read and the wait starts when the save is
\* triggered, and neither changes while the loop polls
ReadOnceBeforeTrigger ==
    /\ (pc = "redis_trigger" /\ pc' = "redis_poll") =>
          last_save' = server_lastsave /\ start' = now
    /\ (pc = "redis_poll" /\ pc' = "redis_poll") =>
          last_save' = last_save /\ start' = start

\* the poll loop is left because a poll read a save time greater than the
\* one read before the trigger
LeftOnAdvance ==
    /\ pc' = "redis_copy"
    /\ server_lastsave' > last_save
    /\ trace' = Append(trace, Ev("poll", 0, "advanced"))

\* the poll loop is left because the wait has reached its bound
LeftOnTimeout ==
    /\ pc' = "tar_volumes"
    /\ now - start >= PollTimeout
    /\ trace' = Append(trace, Ev("redis", 0, "timeout"))

\* the poll loop is left because lastsave raised
LeftOnError ==
    /\ pc' = "tar_volumes"
    /\ trace' = Append(trace, Ev("redis", 0, "conn_error"))

\* redis.rdb.gz is in the working directory only in a cycle whose poll loop
\* saw the save time advance and did not time out
ArtifactOnlyAfterAdvance ==
    "redis.rdb.gz" \in DOMAIN work_files =>
        /\ Events("poll") = <<Ev("poll", 0, "advanced")>>
        /\ \A i \in 1..Len(trace) :
              ~(trace[i].step = "redis" /\ trace[i].res = "timeout")

\* the store-snapshot step ends and run_backup goes on to the volume archive
SnapshotTerminates ==
    (pc \in {"redis_trigger", "redis_poll", "redis_copy"} /\ SnapshotHasTime)
        ~> (pc = "tar_volumes")

FirstFireAfter(t) ==
    CHOOSE f \in (t + 1)..(t + BACKUP_SCHEDULE) : f % BACKUP_SCHEDULE = 0

\* the cycles the loop has started are, in order and one each, for the fire
\* times that follow the seed; the fire time taken from the iterator is the
\* one for the next cycle; the seed is taken after the run-on-start cycle
FiresInOrder ==
    /\ \A i \in 2..Len(fires) : fires[i] = FirstFireAfter(fires[i - 1])
    /\ (caller = "initial" /\ pc # "get_next") => fires = <<>>
    /\ (pc = "seed" /\ BACKUP_RUN_ON_START) =>
          (caller = "initial" /\ outcome \in {"Done", "Failed"})
    /\ (pc = "sleep" \/ (pc = "run_backup" /\ caller = "loop")) =>
          next_run = FirstFireAfter(fires[Len(fires)])
    /\ (caller = "loop" /\ pc \notin {"sleep", "run_backup"}) =>
          /\ Len(fires) >= 2
          /\ next_run = fires[Len(fires)]
          /\ cron = next_run
          /\ timestamp >= next_run

\* when the fire time that follows the iterator's value has passed, the
\* loop calls run_backup at once, and it asks for that fire time as soon as
\* the cycle before has ended
CatchUpWithoutWait ==
    /\ (pc = "get_next" /\ FirstFireAfter(cron) <= now) =>
          /\ pc' = "run_backup"
          /\ next_run' = FirstFireAfter(cron)
          /\ now' = now
    /\ (pc = "return" /\ caller = "loop") => (pc' = "get_next" /\ now' = now)

\* C20: the loop takes its fire times from one iterator, seeded once when
\* the loop starts, after the run-on-start cycle if there is one: every fire
\* time after the seed gets exactly one cycle, in schedule order, none is
\* skipped; the cycles for fire times that passed while a cycle ran start
\* right after it, one after the other, without a wait
C20_EveryFireTimeOneCycle ==
    /\ []FiresInOrder
    /\ [][fires # <<>> => fires'[1] = fires[1]]_vars
    /\ [][CatchUpWithoutWait]_vars

\* two fire times passed while a cycle ran: the cycle for the first of them
\* started late and is over, the one for the second is about to start
C20_Witness ==
    /\ pc = "run_backup"
    /\ caller = "loop"
    /\ next_run <= now
    /\ Len(fires) >= 3
    /\ fires[Len(fires)] < timestamp

====
